---- MODULE Spec2Model ----
(***************************************************************************)
(* PyArlo (custom_components/aarlo/pyaarlo/__init__.py): the device        *)
(* discovery and refresh orchestrator.  The object's fields are the        *)
(* variables, every method the background runner or the host calls is one  *)
(* action.  The collaborators whose code lives in other modules            *)
(* (ArloBackground, ArloBackEnd, ArloStorage, the device classes) are      *)
(* modelled at their boundary.                                             *)
(***************************************************************************)
EXTENDS Integers, Sequences, FiniteSets

VARIABLES
    pc,                 \* "new" | "steady" | "failed" (constructor raised)
    backend,            \* the inventory the remote service answers at startup
    every,              \* _cfg.refresh_devices_every
    now,                \* time.monotonic()
    date,               \* datetime.date.today()
    devices,            \* _devices
    bases,              \* _bases
    cameras,            \* _cameras
    doorbells,          \* _doorbells
    store,              \* _st: key path -> value
    today,              \* _today
    refresh_devices_at, \* _refresh_devices_at
    queue,              \* _bg: jobs handed to run(), not yet executed
    delayed,            \* _bg: jobs handed to run_in(), not yet started
    cadences,           \* _bg: jobs handed to run_every()
    stopped,            \* stop() has been called
    fetch_failed,       \* the latest _refresh_devices job's fetch failed
    th,                 \* the runner's threads inside a tick: thread -> position and locals
    tick_date,          \* history: the date read by the latest fast tick (or __init__)
    reload_time,        \* history: the time read by the latest reloading slow tick (or __init__)
    ev                  \* history: what the latest handler read, submitted and returned

vars == <<pc, backend, every, now, date, devices, bases, cameras, doorbells, store,
          today, refresh_devices_at, queue, delayed, cadences, stopped,
          fetch_failed, th, tick_date, reload_time, ev>>

----------------------------------------------------------------------------
(* Bounds of the model. *)

MaxTime == 4
MaxEvery == 2
NumDates == 3
MaxPending == 0
MaxDevices == 2

Dates == 1..NumDates
Intervals == 0..MaxEvery

(* The monotonic clock has no defined origin: the model puts it at __init__. *)
StartTime == 0

----------------------------------------------------------------------------
(* Raw devices: dicts; a key that is missing (or null) reads as None. *)

None == "None"

RawDevice(id, name, type, model, state) ==
    [deviceId |-> id, deviceName |-> name, deviceType |-> type,
     modelId |-> model, state |-> state]

DeviceTypes == {None, "basestation", "arloq", "arloqs", "camera", "doorbell", "siren"}
ModelIds == {None, "ABC1000"}
States == {None, "provisioned", "unknown"}
DeviceIds == {None, "d1", "d2"}
DeviceNames == {None, "n1", "n2"}

(* dict.get(key, default) *)
Get(device, key, default) == IF device[key] = None THEN default ELSE device[key]

(* constant.DEVICE_KEYS: the tracked metadata keys. *)
DEVICE_KEYS == <<"deviceName", "deviceType", "state">>
TOTAL_CAMERAS_KEY == "totalCameras"
TOTAL_BELLS_KEY == "totalDoorBells"

(* ArloStorage.set(path, value) *)
StSet(st, path, value) ==
    [p \in (DOMAIN st) \cup {path} |-> IF p = path THEN value ELSE st[p]]

EmptyStore == [p \in {} |-> None]

----------------------------------------------------------------------------
(* Inventories. *)

(* The scheduler runs on the inventory of the end-to-end scenario (a base, *)
(* a camera, a camera that is not provisioned) and on the empty one.       *)
EndToEnd ==
    << RawDevice("d1", "n1", "basestation", None, "provisioned"),
       RawDevice("d2", "n2", "camera", None, "provisioned"),
       RawDevice("d2", "n1", "camera", None, "unknown") >>

SchedInventories == {<<>>, EndToEnd}

(* The pings run on no base, on one and on two. *)
TwoBases ==
    << RawDevice("d1", "n1", "basestation", None, "provisioned"),
       RawDevice("d2", "n2", "basestation", None, "provisioned") >>

PingInventories == {<<>>, EndToEnd, TwoBases}

SeqsUpTo(S, n) == UNION {[1..k -> S] : k \in 0..n}

(* Classification runs on lists of up to MaxDevices raw devices: every     *)
(* deviceType, modelId and state on a named device, the devices without a  *)
(* name, and every pairing of id and name on a provisioned camera and a    *)
(* provisioned doorbell.                                                   *)
TypeCases ==
    {RawDevice("d1", "n1", t, m, s) : t \in DeviceTypes, m \in ModelIds, s \in States}

NamelessCases ==
    {RawDevice(id, None, t, None, s) :
        id \in DeviceIds, t \in {"camera", "basestation"}, s \in States}

IdentityCases ==
    {RawDevice(id, n, t, None, "provisioned") :
        id \in DeviceIds, n \in DeviceNames, t \in {"camera", "doorbell"}}

RawDevices == TypeCases \cup NamelessCases \cup IdentityCases

ClassifyInventories == SeqsUpTo(RawDevices, MaxDevices)

(* The lookups run on lists of up to MaxDevices provisioned cameras and    *)
(* doorbells.                                                              *)
LookupInventories == SeqsUpTo(IdentityCases, MaxDevices)

----------------------------------------------------------------------------
(* _parse_devices: persist the tracked keys of every device that has an id. *)

RECURSIVE ParseKeys(_, _, _)
ParseKeys(device, k, st) ==
    IF k > Len(DEVICE_KEYS) THEN st
    ELSE LET key == DEVICE_KEYS[k]
             value == Get(device, key, None)
         IN  ParseKeys(device, k + 1,
                       IF value # None
                       THEN StSet(st, <<device.deviceId, key>>, value)
                       ELSE st)

HasDeviceId_classified(device) ==
    Get(device, "deviceId", None) # None /\ Get(device, "state", "unknown") = "provisioned"

HasDeviceId(device) == Get(device, "deviceId", None) # None

RECURSIVE _parse_devices_backwards(_, _, _)
_parse_devices_backwards(devs, i, st) ==
    IF i > Len(devs) THEN st
    ELSE _parse_devices_backwards(devs, i + 1,
                      IF HasDeviceId(devs[Len(devs) + 1 - i])
                      THEN ParseKeys(devs[Len(devs) + 1 - i], 1, st) ELSE st)

RECURSIVE _parse_devices(_, _, _)
_parse_devices(devs, i, st) ==
    IF i > Len(devs) THEN st
    ELSE _parse_devices(devs, i + 1,
                      IF HasDeviceId(devs[i]) THEN ParseKeys(devs[i], 1, st) ELSE st)

----------------------------------------------------------------------------
(* The classification loop of __init__. *)

(* ArloBase / ArloCamera / ArloDoorBell (dname, self, device): the record  *)
(* keeps its name, the raw device's fields and which raw device it is.     *)
NewDevice(dname, device, i) == [name |-> dname, attrs |-> device, src |-> i]
DeviceIdOf(rec) == Get(rec.attrs, "deviceId", None)
NameOf(rec) == rec.name

Skipped_absent_passes(device) == Get(device, "state", "provisioned") # "provisioned"

Skipped(device) == Get(device, "state", "unknown") # "provisioned"

(* 'skipping ' + dname + ': state unknown': str + None raises TypeError. *)
SkipLogRaises(dname) == dname = None

IsBase(device) ==
    LET dtype == Get(device, "deviceType", None)
    IN  \/ dtype = "basestation"
        \/ Get(device, "modelId", None) = "ABC1000"
        \/ dtype = "arloq"
        \/ dtype = "arloqs"

IsCamera(device) ==
    LET dtype == Get(device, "deviceType", None)
    IN  dtype = "camera" \/ dtype = "arloq" \/ dtype = "arloqs"

IsDoorbell(device) == Get(device, "deviceType", None) = "doorbell"

NoRecords == [bases |-> <<>>, cameras |-> <<>>, doorbells |-> <<>>, raised |-> FALSE]

RECURSIVE Classify(_, _, _)
Classify(devs, i, acc) ==
    IF i > Len(devs) THEN acc
    ELSE LET device == devs[i]
             dname == Get(device, "deviceName", None)
         IN  IF Skipped(device)
             THEN IF SkipLogRaises(dname)
                  THEN [acc EXCEPT !.raised = TRUE]
                  ELSE Classify(devs, i + 1, acc)
             ELSE Classify(devs, i + 1,
                    [bases |-> IF IsBase(device)
                               THEN Append(acc.bases, NewDevice(dname, device, i))
                               ELSE acc.bases,
                     cameras |-> IF IsCamera(device)
                                 THEN Append(acc.cameras, NewDevice(dname, device, i))
                                 ELSE acc.cameras,
                     doorbells |-> IF IsDoorbell(device)
                                   THEN Append(acc.doorbells, NewDevice(dname, device, i))
                                   ELSE acc.doorbells,
                     raised |-> FALSE])

----------------------------------------------------------------------------
(* Submissions to ArloBackground: run(job), run_in(job, delay),            *)
(* run_every(job, period).  base is the position of the job's base in      *)
(* _bases (0: the job takes no base).                                      *)

Run(fn) == [via |-> "run", fn |-> fn, base |-> 0, initial |-> FALSE, delay |-> 0]
RunPing(b) == [via |-> "run", fn |-> "async_ping", base |-> b, initial |-> FALSE, delay |-> 0]
RunRefreshBases(initial) ==
    [via |-> "run", fn |-> "_refresh_bases", base |-> 0, initial |-> initial, delay |-> 0]
RunIn(fn, delay) == [via |-> "run_in", fn |-> fn, base |-> 0, initial |-> FALSE, delay |-> delay]
RunEvery(fn) == [via |-> "run_every", fn |-> fn, base |-> 0, initial |-> FALSE, delay |-> 0]

(* _ping_bases *)
_ping_bases_one_job(bs) == IF Len(bs) = 0 THEN <<>> ELSE <<RunPing(0)>>

_ping_bases(bs) == [b \in 1..Len(bs) |-> RunPing(b)]

Via(subs, via) == SelectSeq(subs, LAMBDA s : s.via = via)
Count(subs, fn) == Len(SelectSeq(subs, LAMBDA s : s.via = "run" /\ s.fn = fn))

StartupSubmissions_cadences_first(bs) ==
    << RunEvery("_fast_refresh"),
       RunEvery("_slow_refresh") >> \o
    _ping_bases(bs) \o
    << RunIn("_refresh_camera_thumbnails", 2),
       RunIn("_refresh_camera_media", 2),
       RunIn("_initial_refresh", 5),
       RunIn("_ml.load", 10) >>

StartupSubmissions(bs) ==
    _ping_bases(bs) \o
    << RunIn("_refresh_camera_thumbnails", 2),
       RunIn("_refresh_camera_media", 2),
       RunIn("_initial_refresh", 5),
       RunIn("_ml.load", 10),
       RunEvery("_fast_refresh"),
       RunEvery("_slow_refresh") >>

Range(seq) == {seq[i] : i \in DOMAIN seq}

NoEv == [op |-> "none", d |-> 0, prev |-> 0, t |-> 0, since |-> 0, old_at |-> 0,
         stopped |-> FALSE, out |-> <<>>, arg |-> None, ret |-> <<>>]

----------------------------------------------------------------------------
(* __init__ *)

__init__ ==
    /\ pc = "new"
    /\ today' = date
    /\ refresh_devices_at' = now + every
    /\ devices' = backend
    /\ LET parsed == _parse_devices(backend, 1, store)
           c == Classify(backend, 1, NoRecords)
           subs == StartupSubmissions(c.bases)
       IN  /\ bases' = c.bases
           /\ cameras' = c.cameras
           /\ doorbells' = c.doorbells
           /\ IF c.raised
              THEN /\ pc' = "failed"
                   /\ store' = parsed
                   /\ ev' = [NoEv EXCEPT !.op = "__init__", !.d = date, !.t = now]
                   /\ UNCHANGED <<queue, delayed, cadences>>
              ELSE /\ pc' = "steady"
                   /\ store' = StSet(StSet(parsed, <<"ARLO", TOTAL_CAMERAS_KEY>>, Len(c.cameras)),
                                     <<"ARLO", TOTAL_BELLS_KEY>>, Len(c.doorbells))
                   /\ queue' = Via(subs, "run")
                   /\ delayed' = Range(Via(subs, "run_in"))
                   /\ cadences' = Range(Via(subs, "run_every"))
                   /\ ev' = [NoEv EXCEPT !.op = "__init__", !.d = date, !.t = now, !.out = subs]
    /\ tick_date' = date
    /\ reload_time' = now
    /\ UNCHANGED <<fetch_failed, th, backend, every, now, date, stopped>>

----------------------------------------------------------------------------
(* _fast_refresh: the fast cadence's tick. *)

DayChanged(d) == today # d

NextToday_stale(d) == today

NextToday(d) == d

FastSubmissions(bs, changed) ==
    <<Run("_st.save")>> \o _ping_bases(bs) \o
    (IF changed THEN <<Run("_ml.load"), Run("_refresh_camera_media")>> ELSE <<>>)

_fast_refresh ==
    /\ RunEvery("_fast_refresh") \in cadences
    /\ LET d == date
           changed == DayChanged(d)
           subs == FastSubmissions(bases, changed)
       IN  /\ Len(queue) <= MaxPending
           /\ today' = IF changed THEN NextToday(d) ELSE today
           /\ queue' = queue \o subs
           /\ ev' = [NoEv EXCEPT !.op = "_fast_refresh", !.d = d, !.prev = tick_date,
                                 !.stopped = stopped, !.out = subs]
           /\ tick_date' = d
    /\ UNCHANGED <<fetch_failed, th, pc, backend, every, now, date, devices, bases, cameras, doorbells,
                   store, refresh_devices_at, delayed, cadences, stopped, reload_time>>

----------------------------------------------------------------------------
(* _slow_refresh: the slow cadence's tick. *)

ReloadEnabled_always == TRUE

ReloadEnabled == every # 0

ReloadNeeded_atleast(t) == t >= refresh_devices_at

ReloadNeeded(t) == t > refresh_devices_at

NextDeadline_fixedstep(t) == refresh_devices_at + every

NextDeadline(t) == t + every

SlowSubmissions(reload) ==
    <<RunRefreshBases(FALSE), Run("_refresh_ambient_sensors")>> \o
    (IF reload THEN <<Run("_refresh_devices")>> ELSE <<>>)

_slow_refresh ==
    /\ RunEvery("_slow_refresh") \in cadences
    /\ LET t == now
           reload == ReloadEnabled /\ ReloadNeeded(t)
           subs == SlowSubmissions(reload)
       IN  /\ Len(queue) <= MaxPending
           /\ refresh_devices_at' = IF reload THEN NextDeadline(t) ELSE refresh_devices_at
           /\ queue' = queue \o subs
           /\ ev' = [NoEv EXCEPT !.op = "_slow_refresh", !.t = t, !.since = reload_time,
                                 !.old_at = refresh_devices_at, !.stopped = stopped,
                                 !.out = subs]
           /\ reload_time' = IF reload THEN t ELSE reload_time
    /\ UNCHANGED <<fetch_failed, th, pc, backend, every, now, date, devices, bases, cameras, doorbells,
                   store, today, delayed, cadences, stopped, tick_date>>

----------------------------------------------------------------------------
(* The delayed startup jobs.  The runner starts them in the order of their *)
(* delays.                                                                 *)

Due(j) == j \in delayed /\ \A k \in delayed : j.delay <= k.delay

InitialSubmissions == <<RunRefreshBases(TRUE), Run("_refresh_ambient_sensors")>>

_initial_refresh ==
    /\ Due(RunIn("_initial_refresh", 5))
    /\ Len(queue) <= MaxPending
    /\ delayed' = delayed \ {RunIn("_initial_refresh", 5)}
    /\ queue' = queue \o InitialSubmissions
    /\ ev' = [NoEv EXCEPT !.op = "_initial_refresh", !.stopped = stopped,
                          !.out = InitialSubmissions]
    /\ UNCHANGED <<fetch_failed, th, pc, backend, every, now, date, devices, bases, cameras, doorbells,
                   store, today, refresh_devices_at, cadences, stopped,
                   tick_date, reload_time>>

(* _refresh_camera_thumbnails, _refresh_camera_media, _ml.load: they call  *)
(* into the cameras and the media library and leave PyArlo's fields alone. *)
StartDelayed ==
    \E j \in delayed :
        /\ Due(j)
        /\ j.fn # "_initial_refresh"
        /\ delayed' = delayed \ {j}
        /\ ev' = [NoEv EXCEPT !.op = j.fn, !.stopped = stopped]
        /\ UNCHANGED <<fetch_failed, th, pc, backend, every, now, date, devices, bases, cameras, doorbells,
                       store, today, refresh_devices_at, queue, cadences, stopped,
                       tick_date, reload_time>>

----------------------------------------------------------------------------
(* The runner executes the jobs handed to run() one at a time, oldest first. *)

(* _refresh_devices, as a job: _devices becomes whatever the service        *)
(* answers.  A fetch that fails raises out of _be.get before _devices is    *)
(* assigned; the job ends there and the runner goes on to its next job.    *)
_refresh_devices_retry ==
    /\ queue # <<>>
    /\ Head(queue).fn = "_refresh_devices"
    /\ queue' = Tail(queue)
    /\ \/ /\ \E answer \in SchedInventories : devices' = answer
          /\ fetch_failed' = FALSE
          /\ UNCHANGED refresh_devices_at
       \/ /\ devices' = devices
          /\ fetch_failed' = TRUE
          /\ refresh_devices_at' = now
    /\ ev' = [NoEv EXCEPT !.op = "_refresh_devices", !.stopped = stopped]
    /\ UNCHANGED <<th, pc, backend, every, now, date, bases, cameras, doorbells, store,
                   today, delayed, cadences, stopped, tick_date, reload_time>>

_refresh_devices_reclassify ==
    /\ queue # <<>>
    /\ Head(queue).fn = "_refresh_devices"
    /\ queue' = Tail(queue)
    /\ \/ /\ \E answer \in SchedInventories :
                /\ devices' = answer
                /\ bases' = Classify(answer, 1, NoRecords).bases
                /\ cameras' = Classify(answer, 1, NoRecords).cameras
                /\ doorbells' = Classify(answer, 1, NoRecords).doorbells
          /\ fetch_failed' = FALSE
       \/ /\ UNCHANGED <<devices, bases, cameras, doorbells>>
          /\ fetch_failed' = TRUE
    /\ ev' = [NoEv EXCEPT !.op = "_refresh_devices", !.stopped = stopped]
    /\ UNCHANGED <<th, pc, backend, every, now, date, store, today, refresh_devices_at,
                   delayed, cadences, stopped, tick_date, reload_time>>

_refresh_devices ==
    /\ queue # <<>>
    /\ Head(queue).fn = "_refresh_devices"
    /\ queue' = Tail(queue)
    /\ \/ /\ \E answer \in SchedInventories : devices' = answer
          /\ fetch_failed' = FALSE
       \/ /\ devices' = devices
          /\ fetch_failed' = TRUE
    /\ ev' = [NoEv EXCEPT !.op = "_refresh_devices", !.stopped = stopped]
    /\ UNCHANGED <<th, pc, backend, every, now, date, bases, cameras, doorbells, store,
                   today, refresh_devices_at, delayed, cadences, stopped,
                   tick_date, reload_time>>

(* _refresh_bases(initial), as a job: the calls it makes, in order.  Every  *)
(* base refreshes its list of modes; only the initial refresh also pulls    *)
(* the active mode; then the backend is asked to notify about the base's    *)
(* cameras and its doorbells.                                               *)
Call(fn, b) == [via |-> "call", fn |-> fn, base |-> b, initial |-> FALSE, delay |-> 0]

PullsMode_always(initial) == TRUE

PullsMode(initial) == initial

RECURSIVE RefreshBasesCalls(_, _, _)
RefreshBasesCalls(bs, b, initial) ==
    IF b > Len(bs) THEN <<>>
    ELSE <<Call("update_modes", b)>> \o
         (IF PullsMode(initial) THEN <<Call("update_mode", b)>> ELSE <<>>) \o
         <<Call("notify_cameras", b), Call("notify_doorbells", b)>> \o
         RefreshBasesCalls(bs, b + 1, initial)

Calls(calls, fn, b) == Len(SelectSeq(calls, LAMBDA c : c.via = "call" /\ c.fn = fn /\ c.base = b))

_refresh_bases ==
    /\ queue # <<>>
    /\ Head(queue).fn = "_refresh_bases"
    /\ queue' = Tail(queue)
    /\ ev' = [NoEv EXCEPT !.op = "_refresh_bases",
                          !.arg = IF Head(queue).initial THEN "True" ELSE "False",
                          !.stopped = stopped,
                          !.out = RefreshBasesCalls(bases, 1, Head(queue).initial)]
    /\ UNCHANGED <<fetch_failed, th, pc, backend, every, now, date, devices, bases, cameras,
                   doorbells, store, today, refresh_devices_at, delayed, cadences, stopped,
                   tick_date, reload_time>>

(* Every other job works on the store, the backend, the media library or a *)
(* device object.  It returns or it raises; either way the runner drops it *)
(* and goes on to the next job.  ev.out is the queue the job was taken     *)
(* from.                                                                   *)
Outcomes == {"returned", "raised"}

RunJob ==
    /\ queue # <<>>
    /\ Head(queue).fn \notin {"_refresh_devices", "_refresh_bases"}
    /\ queue' = Tail(queue)
    /\ \E outcome \in Outcomes :
           ev' = [NoEv EXCEPT !.op = "job", !.arg = Head(queue).fn, !.stopped = stopped,
                              !.ret = <<outcome>>, !.out = queue]
    /\ UNCHANGED <<fetch_failed, th, pc, backend, every, now, date, devices, bases, cameras, doorbells,
                   store, today, refresh_devices_at, delayed, cadences, stopped,
                   tick_date, reload_time>>

----------------------------------------------------------------------------
(* stop(): flush the store, log out.  Nothing is said to the runner. *)

stop ==
    /\ pc = "steady"
    /\ ~stopped
    /\ stopped' = TRUE
    /\ ev' = [NoEv EXCEPT !.op = "stop", !.stopped = TRUE]
    /\ UNCHANGED <<fetch_failed, th, pc, backend, every, now, date, devices, bases, cameras, doorbells,
                   store, today, refresh_devices_at, queue, delayed, cadences,
                   tick_date, reload_time>>

----------------------------------------------------------------------------
(* The environment: the monotonic clock and the calendar.  Both are slow   *)
(* against the runner: at most MaxPending jobs are still waiting when the  *)
(* clock moves or a cadence ticks.                                         *)

Advance ==
    /\ pc = "steady"
    /\ Len(queue) <= MaxPending
    /\ now < MaxTime
    /\ now' = now + 1
    /\ UNCHANGED <<fetch_failed, th, pc, backend, every, date, devices, bases, cameras, doorbells, store,
                   today, refresh_devices_at, queue, delayed, cadences, stopped,
                   tick_date, reload_time>>
    /\ ev' = NoEv

DateChange ==
    /\ pc = "steady"
    /\ Len(queue) <= MaxPending
    /\ \E d \in Dates \ {date} : date' = d
    /\ UNCHANGED <<fetch_failed, th, pc, backend, every, now, devices, bases, cameras, doorbells, store,
                   today, refresh_devices_at, queue, delayed, cadences, stopped,
                   tick_date, reload_time>>
    /\ ev' = NoEv

----------------------------------------------------------------------------
(* The ticks, statement by statement, for a runner that may have more than *)
(* one tick in flight.  A thread is off (the runner never starts it),      *)
(* ready (its tick is due) or at a statement of its tick.  v is the value  *)
(* it read (the date, the clock), hit what its test found, was the field   *)
(* it tests as it stood when the tick began, out what it handed to run().  *)

FastThreads == {"fast1", "fast2"}
SlowThreads == {"slow1", "slow2"}
Threads == FastThreads \cup SlowThreads

Thread(at) == [pc |-> at, v |-> 0, hit |-> FALSE, was |-> 0, out |-> <<>>]

Idle == [t \in Threads |-> Thread("off")]

Ready(S) == [t \in Threads |-> IF t \in S THEN Thread("ready") ELSE Thread("off")]

NotStarted == \A t \in Threads : th[t].pc \in {"off", "ready"}

AllDone == \A t \in Threads : th[t].pc \in {"off", "done"}

Frame == <<pc, backend, every, now, date, devices, bases, cameras, doorbells, store,
           delayed, cadences, stopped, fetch_failed, tick_date, reload_time, ev>>

(* _fast_refresh, lines 141-142 *)
FastSubmit(t) ==
    /\ pc = "steady"
    /\ th[t].pc = "ready"
    /\ LET subs == <<Run("_st.save")>> \o _ping_bases(bases)
       IN  /\ queue' = queue \o subs
           /\ th' = [th EXCEPT ![t].pc = "test", ![t].was = today, ![t].out = subs]
    /\ UNCHANGED <<today, refresh_devices_at>>
    /\ UNCHANGED Frame

(* lines 145-147 *)
FastTest(t) ==
    /\ th[t].pc = "test"
    /\ th' = [th EXCEPT ![t].v = date, ![t].hit = DayChanged(date),
                        ![t].pc = IF DayChanged(date) THEN "store" ELSE "done"]
    /\ UNCHANGED <<today, refresh_devices_at, queue>>
    /\ UNCHANGED Frame

(* line 149 *)
FastStore_and_deadline(t) ==
    /\ th[t].pc = "store"
    /\ today' = NextToday(th[t].v)
    /\ refresh_devices_at' = 0
    /\ th' = [th EXCEPT ![t].pc = "load"]
    /\ UNCHANGED queue
    /\ UNCHANGED Frame

FastStore(t) ==
    /\ th[t].pc = "store"
    /\ today' = NextToday(th[t].v)
    /\ th' = [th EXCEPT ![t].pc = "load"]
    /\ UNCHANGED <<refresh_devices_at, queue>>
    /\ UNCHANGED Frame

(* line 150 *)
FastLoad(t) ==
    /\ th[t].pc = "load"
    /\ queue' = Append(queue, Run("_ml.load"))
    /\ th' = [th EXCEPT ![t].pc = "media", ![t].out = Append(@, Run("_ml.load"))]
    /\ UNCHANGED <<today, refresh_devices_at>>
    /\ UNCHANGED Frame

(* line 151 *)
FastMedia(t) ==
    /\ th[t].pc = "media"
    /\ queue' = Append(queue, Run("_refresh_camera_media"))
    /\ th' = [th EXCEPT ![t].pc = "done", ![t].out = Append(@, Run("_refresh_camera_media"))]
    /\ UNCHANGED <<today, refresh_devices_at>>
    /\ UNCHANGED Frame

(* _slow_refresh, lines 155-156 *)
SlowSubmit(t) ==
    /\ pc = "steady"
    /\ th[t].pc = "ready"
    /\ LET subs == SlowSubmissions(FALSE)
       IN  /\ queue' = queue \o subs
           /\ th' = [th EXCEPT ![t].pc = "test", ![t].was = refresh_devices_at,
                               ![t].out = subs]
    /\ UNCHANGED <<today, refresh_devices_at>>
    /\ UNCHANGED Frame

(* lines 159-162 *)
SlowTest(t) ==
    /\ th[t].pc = "test"
    /\ LET hit == ReloadEnabled /\ ReloadNeeded(now)
       IN  th' = [th EXCEPT ![t].v = now, ![t].hit = hit,
                            ![t].pc = IF hit THEN "store" ELSE "done"]
    /\ UNCHANGED <<today, refresh_devices_at, queue>>
    /\ UNCHANGED Frame

(* line 164 *)
SlowStore(t) ==
    /\ th[t].pc = "store"
    /\ refresh_devices_at' = NextDeadline(th[t].v)
    /\ th' = [th EXCEPT ![t].pc = "reload"]
    /\ UNCHANGED <<today, queue>>
    /\ UNCHANGED Frame

(* line 165 *)
SlowReload(t) ==
    /\ th[t].pc = "reload"
    /\ queue' = Append(queue, Run("_refresh_devices"))
    /\ th' = [th EXCEPT ![t].pc = "done", ![t].out = Append(@, Run("_refresh_devices"))]
    /\ UNCHANGED <<today, refresh_devices_at>>
    /\ UNCHANGED Frame

FastStep == \E t \in FastThreads :
    FastSubmit(t) \/ FastTest(t) \/ FastStore(t) \/ FastLoad(t) \/ FastMedia(t)

SlowStep == \E t \in SlowThreads :
    SlowSubmit(t) \/ SlowTest(t) \/ SlowStore(t) \/ SlowReload(t)

(* Before the ticks start, the clock and the calendar move and the runner  *)
(* works off the startup pings; while the ticks are in flight they stand.  *)
Settle == NotStarted /\ (Advance \/ DateChange \/ RunJob)

----------------------------------------------------------------------------
(* The lookups.  A result is <<record>>, or <<>> for None. *)

lookup_camera_by_id(device_id) ==
    LET camera == SelectSeq(cameras, LAMBDA cam : DeviceIdOf(cam) = device_id)
    IN  IF camera # <<>> THEN <<camera[1]>> ELSE <<>>

lookup_camera_by_name_last(name) ==
    LET camera == SelectSeq(cameras, LAMBDA cam : NameOf(cam) = name)
    IN  IF camera # <<>> THEN <<camera[Len(camera)]>> ELSE <<>>

lookup_camera_by_name(name) ==
    LET camera == SelectSeq(cameras, LAMBDA cam : NameOf(cam) = name)
    IN  IF camera # <<>> THEN <<camera[1]>> ELSE <<>>

lookup_doorbell_by_id(device_id) ==
    LET doorbell == SelectSeq(doorbells, LAMBDA cam : DeviceIdOf(cam) = device_id)
    IN  IF doorbell # <<>> THEN <<doorbell[1]>> ELSE <<>>

lookup_doorbell_by_name(name) ==
    LET doorbell == SelectSeq(doorbells, LAMBDA cam : NameOf(cam) = name)
    IN  IF doorbell # <<>> THEN <<doorbell[1]>> ELSE <<>>

Returned(op, arg, ret) ==
    /\ pc = "steady"
    /\ ev' = [NoEv EXCEPT !.op = op, !.arg = arg, !.ret = ret]
    /\ UNCHANGED <<fetch_failed, th, pc, backend, every, now, date, devices, bases, cameras, doorbells,
                   store, today, refresh_devices_at, queue, delayed, cadences, stopped,
                   tick_date, reload_time>>

LookupCameraById ==
    \E id \in DeviceIds : Returned("lookup_camera_by_id", id, lookup_camera_by_id(id))

LookupCameraByName ==
    \E n \in DeviceNames : Returned("lookup_camera_by_name", n, lookup_camera_by_name(n))

LookupDoorbellById ==
    \E id \in DeviceIds : Returned("lookup_doorbell_by_id", id, lookup_doorbell_by_id(id))

LookupDoorbellByName ==
    \E n \in DeviceNames : Returned("lookup_doorbell_by_name", n, lookup_doorbell_by_name(n))

----------------------------------------------------------------------------
(* The scheduler's specification. *)

InitObject ==
    /\ pc = "new"
    /\ now = StartTime
    /\ devices = <<>>
    /\ bases = <<>>
    /\ cameras = <<>>
    /\ doorbells = <<>>
    /\ store = EmptyStore
    /\ today = 0
    /\ refresh_devices_at = 0
    /\ queue = <<>>
    /\ delayed = {}
    /\ cadences = {}
    /\ stopped = FALSE
    /\ fetch_failed = FALSE
    /\ tick_date = 0
    /\ reload_time = 0
    /\ ev = NoEv

Init ==
    /\ InitObject
    /\ th = Idle
    /\ backend \in SchedInventories
    /\ every \in Intervals
    /\ date \in Dates

Next ==
    \/ __init__
    \/ _fast_refresh
    \/ _slow_refresh
    \/ _initial_refresh
    \/ StartDelayed
    \/ _refresh_devices
    \/ _refresh_bases
    \/ RunJob
    \/ stop
    \/ Advance
    \/ DateChange

Spec == Init /\ [][Next]_vars

----------------------------------------------------------------------------
(* One fast tick and one slow tick in flight together. *)

InitInterleave ==
    /\ InitObject
    /\ th = Ready({"fast1", "slow1"})
    /\ backend \in SchedInventories
    /\ every \in Intervals
    /\ date \in Dates

NextInterleave ==
    \/ __init__
    \/ Settle
    \/ FastStep
    \/ SlowStep

SpecInterleave == InitInterleave /\ [][NextInterleave]_vars

(* Two ticks of the same cadence in flight together. *)

InitOverlap ==
    /\ InitObject
    /\ th \in {Ready(FastThreads), Ready(SlowThreads)}
    /\ backend \in SchedInventories
    /\ every \in Intervals
    /\ date \in Dates

SpecOverlap == InitOverlap /\ [][NextInterleave]_vars

----------------------------------------------------------------------------
(* The fast cadence and the runner alone, on PingInventories. *)

InitPing ==
    /\ InitObject
    /\ th = Idle
    /\ backend \in PingInventories
    /\ every = 0
    /\ date \in Dates

NextPing ==
    \/ __init__
    \/ _fast_refresh
    \/ RunJob
    \/ DateChange

SpecPing == InitPing /\ [][NextPing]_vars

(* The same under the runner's scheduling: a registered cadence keeps      *)
(* ticking and a job handed to run() is executed.                          *)
SpecFair == SpecPing /\ WF_vars(_fast_refresh) /\ WF_vars(RunJob)

----------------------------------------------------------------------------
(* Startup alone, on every inventory of ClassifyInventories. *)

InitClassify ==
    /\ InitObject
    /\ th = Idle
    /\ backend \in ClassifyInventories
    /\ every = 0
    /\ date = 1

(* _parse_devices once more, on the inventory the object holds.  ev.ret is  *)
(* the store the run started from.                                         *)
ParseAgain ==
    /\ pc = "steady"
    /\ store' = _parse_devices(devices, 1, store)
    /\ ev' = [NoEv EXCEPT !.op = "_parse_devices", !.ret = <<store>>]
    /\ UNCHANGED <<pc, backend, every, now, date, devices, bases, cameras, doorbells,
                   today, refresh_devices_at, queue, delayed, cadences, stopped,
                   fetch_failed, th, tick_date, reload_time>>

NextClassify ==
    \/ __init__
    \/ ParseAgain

SpecClassify == InitClassify /\ [][NextClassify]_vars

(* Startup and the lookups, on every inventory of LookupInventories. *)

InitLookup ==
    /\ InitObject
    /\ th = Idle
    /\ backend \in LookupInventories
    /\ every = 0
    /\ date = 1

NextLookup ==
    \/ __init__
    \/ LookupCameraById
    \/ LookupCameraByName
    \/ LookupDoorbellById
    \/ LookupDoorbellByName

SpecLookup == InitLookup /\ [][NextLookup]_vars

----------------------------------------------------------------------------
(* The scheduler's properties. *)

Scheduled == {"_fast_refresh", "_slow_refresh", "_initial_refresh",
              "_refresh_camera_thumbnails", "_refresh_camera_media", "_ml.load"}

(* C1: a fast tick hands the media-library reload (_ml.load) and the       *)
(* camera-media rebuild (_refresh_camera_media) to the runner once each    *)
(* when the date it reads differs from the date the previous fast tick (or *)
(* __init__) read, and neither when the two dates are the same; between    *)
(* ticks the stored today is the date the latest tick read.                *)
C1_DayRollover ==
    /\ pc = "steady" => today = tick_date
    /\ ev.op = "_fast_refresh" =>
         /\ Count(ev.out, "_ml.load") = (IF ev.d # ev.prev THEN 1 ELSE 0)
         /\ Count(ev.out, "_refresh_camera_media") = (IF ev.d # ev.prev THEN 1 ELSE 0)

(* A fast tick that found the date more than one day after the previous    *)
(* tick's date and handed over one reload and one rebuild.                 *)
C1_Witness ==
    /\ ev.op = "_fast_refresh"
    /\ ev.d > ev.prev + 1
    /\ Count(ev.out, "_ml.load") = 1
    /\ Count(ev.out, "_refresh_camera_media") = 1

(* C2, as amended: a slow tick that triggers a device reload sets the      *)
(* deadline to the monotonic time it read plus the interval, which is      *)
(* later than the previous deadline plus the interval.                     *)
C2_DeadlineFromNow ==
    (ev.op = "_slow_refresh" /\ Count(ev.out, "_refresh_devices") = 1) =>
        /\ refresh_devices_at = ev.t + every
        /\ refresh_devices_at > ev.old_at + every

(* A reloading slow tick that ran two or more time units past the deadline. *)
C2_Witness ==
    /\ ev.op = "_slow_refresh"
    /\ Count(ev.out, "_refresh_devices") = 1
    /\ ev.t > ev.old_at + 1

(* C2, as claimed: a reloading slow tick moves the deadline by exactly the *)
(* interval.                                                               *)
C2_FixedSteps ==
    (ev.op = "_slow_refresh" /\ Count(ev.out, "_refresh_devices") = 1) =>
        refresh_devices_at = ev.old_at + every

(* C3, as amended: with a positive interval, a slow tick hands one         *)
(* _refresh_devices job to the runner when more than the interval has      *)
(* elapsed since the latest reload (or since startup), and none when the   *)
(* elapsed time is the interval or less.                                   *)
C3_ReloadGate ==
    (ev.op = "_slow_refresh" /\ every > 0) =>
        Count(ev.out, "_refresh_devices") = (IF ev.t - ev.since > every THEN 1 ELSE 0)

(* A slow tick that ran exactly one interval after the latest reload and   *)
(* handed over no reload.                                                  *)
C3_Witness ==
    /\ ev.op = "_slow_refresh"
    /\ every > 0
    /\ ev.t - ev.since = every
    /\ Count(ev.out, "_refresh_devices") = 0

(* C3, as claimed: elapsed time equal to the interval already qualifies.   *)
C3_AtLeastInterval ==
    (ev.op = "_slow_refresh" /\ every > 0) =>
        Count(ev.out, "_refresh_devices") = (IF ev.t - ev.since >= every THEN 1 ELSE 0)

(* C4: with the interval configured as 0, no slow tick hands a             *)
(* _refresh_devices job to the runner, none is waiting in the runner, and  *)
(* the deadline keeps the value __init__ gave it.                          *)
C4_ReloadDisabled ==
    (every = 0 /\ pc # "new") =>
        /\ refresh_devices_at = StartTime
        /\ Count(ev.out, "_refresh_devices") = 0
        /\ Count(queue, "_refresh_devices") = 0

(* A slow tick with interval 0 that ran after the deadline had passed.     *)
C4_Witness ==
    /\ every = 0
    /\ ev.op = "_slow_refresh"
    /\ ev.t > refresh_devices_at

(* C5, as claimed: no cadence ticks and no delayed startup job starts once *)
(* stop() has been called.                                                 *)
C5_NothingAfterStop == ev.op \in Scheduled => ~ev.stopped

----------------------------------------------------------------------------
(* The properties of startup and of the lookups. *)

Records == Range(bases) \cup Range(cameras) \cup Range(doorbells)

From(coll, i) == {k \in DOMAIN coll : coll[k].src = i}

Tracked == Range(DEVICE_KEYS)

Max(S) == CHOOSE x \in S : \A y \in S : y <= x
Min(S) == CHOOSE x \in S : \A y \in S : x <= y

(* C6: a raw device whose state is missing or is not "provisioned" has no  *)
(* record in bases, cameras or doorbells, whatever its deviceType and      *)
(* modelId.                                                                *)
C6_SkippedHasNoRecord ==
    pc # "new" =>
        \A i \in DOMAIN devices :
            devices[i].state # "provisioned" => \A r \in Records : r.src # i

(* Startup completed on an inventory that holds a camera whose state is    *)
(* missing or unknown beside a device that was classified.                 *)
C6_Witness ==
    /\ pc = "steady"
    /\ Records # {}
    /\ \E i \in DOMAIN devices :
          /\ devices[i].state \in {None, "unknown"}
          /\ devices[i].deviceType = "camera"
          /\ devices[i].modelId = "ABC1000"

(* C7, as claimed: every provisioned raw device has a Base record iff its  *)
(* deviceType is basestation, arloq or arloqs or its modelId is ABC1000, a *)
(* Camera record iff its deviceType is camera, arloq or arloqs, and a      *)
(* Doorbell record iff its deviceType is doorbell.                         *)
C7_ClausesApplied ==
    pc # "new" =>
        \A i \in DOMAIN devices :
            devices[i].state = "provisioned" =>
                LET t == devices[i].deviceType
                IN  /\ Cardinality(From(bases, i)) =
                         (IF t \in {"basestation", "arloq", "arloqs"}
                             \/ devices[i].modelId = "ABC1000" THEN 1 ELSE 0)
                    /\ Cardinality(From(cameras, i)) =
                         (IF t \in {"camera", "arloq", "arloqs"} THEN 1 ELSE 0)
                    /\ Cardinality(From(doorbells, i)) =
                         (IF t = "doorbell" THEN 1 ELSE 0)
                    /\ \A r \in Records : r.src = i => r.attrs = devices[i]

(* The clauses of C7 on the startups that complete. *)
ClausesAppliedWhenConstructed == pc = "steady" => C7_ClausesApplied

(* C8, as claimed: startup completes on every inventory. *)
C8_StartupCompletes == pc # "failed"

(* C9, as amended: after _parse_devices the store holds, under [id, key]   *)
(* for every device id and tracked key, the value of the last raw device   *)
(* with that id whose key is present, skipped devices included; it holds   *)
(* nothing under an id and key no raw device gives a value, nothing under  *)
(* a missing id and nothing under an untracked key.                        *)
C9_LastValueStored ==
    pc # "new" =>
        /\ \A id \in DeviceIds \ {None} : \A key \in Tracked :
              LET given == {i \in DOMAIN devices :
                              devices[i].deviceId = id /\ devices[i][key] # None}
              IN  IF given = {}
                  THEN <<id, key>> \notin DOMAIN store
                  ELSE /\ <<id, key>> \in DOMAIN store
                       /\ store[<<id, key>>] = devices[Max(given)][key]
        /\ \A p \in DOMAIN store :
              \/ p[1] = "ARLO"
              \/ p[1] \in DeviceIds \ {None} /\ p[2] \in Tracked

(* A skipped device after a device of the same id: the store holds the     *)
(* skipped device's name, not the first one's.                             *)
C9_Witness ==
    /\ pc # "new"
    /\ \E i, j \in DOMAIN devices :
          /\ i < j
          /\ devices[i].deviceId = devices[j].deviceId
          /\ devices[j].deviceId # None
          /\ devices[j].state # "provisioned"
          /\ devices[i].deviceName # None
          /\ devices[j].deviceName # None
          /\ devices[i].deviceName # devices[j].deviceName
          /\ store[<<devices[j].deviceId, "deviceName">>] = devices[j].deviceName

(* C9, as claimed: the store holds every raw device's own value. *)
C9_EveryValueStored ==
    pc # "new" =>
        \A i \in DOMAIN devices : \A key \in Tracked :
            (devices[i].deviceId # None /\ devices[i][key] # None) =>
                /\ <<devices[i].deviceId, key>> \in DOMAIN store
                /\ store[<<devices[i].deviceId, key>>] = devices[i][key]

(* C10: each lookup returns the record at the least position of its        *)
(* collection whose device_id (or name) equals the argument, and None when *)
(* no position matches.                                                    *)
FirstMatch(coll, matching) ==
    IF matching = {} THEN <<>> ELSE <<coll[Min(matching)]>>

C10_FirstMatchOrNone ==
    /\ ev.op = "lookup_camera_by_id" =>
         ev.ret = FirstMatch(cameras,
                    {k \in DOMAIN cameras : cameras[k].attrs.deviceId = ev.arg})
    /\ ev.op = "lookup_camera_by_name" =>
         ev.ret = FirstMatch(cameras,
                    {k \in DOMAIN cameras : cameras[k].name = ev.arg})
    /\ ev.op = "lookup_doorbell_by_id" =>
         ev.ret = FirstMatch(doorbells,
                    {k \in DOMAIN doorbells : doorbells[k].attrs.deviceId = ev.arg})
    /\ ev.op = "lookup_doorbell_by_name" =>
         ev.ret = FirstMatch(doorbells,
                    {k \in DOMAIN doorbells : doorbells[k].name = ev.arg})

(* A lookup by name that two cameras match and that returned the first.    *)
C10_Witness ==
    /\ ev.op = "lookup_camera_by_name"
    /\ Len(cameras) >= 2
    /\ cameras[1].name = ev.arg
    /\ cameras[2].name = ev.arg
    /\ cameras[1].attrs.deviceId # cameras[2].attrs.deviceId
    /\ ev.ret = <<cameras[1]>>

(* C11: _parse_devices run again on the same raw device list leaves the    *)
(* store exactly as the first run left it, and where two or more raw       *)
(* devices share a deviceId the store holds, for each tracked key, the     *)
(* value of the last of them that has the key.                             *)
C11_ParseIdempotent ==
    ev.op = "_parse_devices" =>
        /\ store = ev.ret[1]
        /\ \A id \in DeviceIds \ {None} : \A key \in Tracked :
              LET given == {i \in DOMAIN devices :
                              devices[i].deviceId = id /\ devices[i][key] # None}
              IN  Cardinality(given) >= 2 => store[<<id, key>>] = devices[Max(given)][key]

(* A second run on two devices of one id and different names: the store is *)
(* as before and holds the second device's name.                           *)
C11_Witness ==
    /\ ev.op = "_parse_devices"
    /\ Len(devices) = 2
    /\ devices[1].deviceId = devices[2].deviceId
    /\ devices[1].deviceId # None
    /\ devices[1].deviceName # None
    /\ devices[2].deviceName # None
    /\ devices[1].deviceName # devices[2].deviceName
    /\ store = ev.ret[1]
    /\ store[<<devices[2].deviceId, "deviceName">>] = devices[2].deviceName

(* C12: whenever __init__ has handed anything to the runner, the fetch,    *)
(* the store's device metadata and totals and the classification are       *)
(* complete; and what it hands over is, in this order, one ping per base   *)
(* of the complete bases collection, the four delayed startup jobs, the    *)
(* two cadences.                                                           *)
BaseDevices ==
    {i \in DOMAIN devices :
        /\ devices[i].state = "provisioned"
        /\ \/ devices[i].deviceType \in {"basestation", "arloq", "arloqs"}
           \/ devices[i].modelId = "ABC1000"}

C12_StartupOrder ==
    /\ (queue # <<>> \/ delayed # {} \/ cadences # {}) =>
          /\ pc = "steady"
          /\ devices = backend
          /\ Len(bases) = Cardinality(BaseDevices)
          /\ <<"ARLO", TOTAL_CAMERAS_KEY>> \in DOMAIN store
          /\ <<"ARLO", TOTAL_BELLS_KEY>> \in DOMAIN store
          /\ \A i \in DOMAIN devices : \A key \in Tracked :
                (devices[i].deviceId # None /\ devices[i][key] # None) =>
                    <<devices[i].deviceId, key>> \in DOMAIN store
    /\ (ev.op = "__init__" /\ pc = "steady") =>
          LET n == Len(bases)
          IN  /\ Len(ev.out) = n + 6
              /\ \A k \in 1..n : ev.out[k] = RunPing(k)
              /\ \A k \in (n + 1)..(n + 4) : ev.out[k].via = "run_in"
              /\ {ev.out[k].fn : k \in (n + 1)..(n + 4)} =
                    {"_refresh_camera_thumbnails", "_refresh_camera_media",
                     "_initial_refresh", "_ml.load"}
              /\ \A k \in (n + 5)..(n + 6) : ev.out[k].via = "run_every"
              /\ {ev.out[k].fn : k \in (n + 5)..(n + 6)} = {"_fast_refresh", "_slow_refresh"}
              /\ queue = SubSeq(ev.out, 1, n)

(* A startup on two bases: two pings head what was handed over. *)
C12_Witness ==
    /\ ev.op = "__init__"
    /\ pc = "steady"
    /\ Len(bases) = 2
    /\ Len(ev.out) = 8
    /\ ev.out[1] = RunPing(1)
    /\ ev.out[2] = RunPing(2)
    /\ ev.out[8].via = "run_every"

(* C13: once the object is constructed no step takes _refresh_devices_at   *)
(* down, and a step that writes a new value writes one that is no earlier  *)
(* than the monotonic time of the write.                                   *)
C13_DeadlineNeverDecreases ==
    [][pc = "steady" =>
          /\ refresh_devices_at' >= refresh_devices_at
          /\ refresh_devices_at' # refresh_devices_at => refresh_devices_at' >= now']_vars

(* A slow tick that came late, more than one time unit past the deadline,  *)
(* and moved the deadline up, past the tick's own time.                    *)
C13_Witness ==
    /\ ev.op = "_slow_refresh"
    /\ Count(ev.out, "_refresh_devices") = 1
    /\ ev.t > ev.old_at + 1
    /\ refresh_devices_at > ev.old_at
    /\ refresh_devices_at > ev.t

(* C14: after a _refresh_devices job whose fetch failed the object is still *)
(* constructed, both cadences are still registered, and the deadline is    *)
(* still the one the tick that asked for the reload set; a slow tick then   *)
(* asks for no reload up to that deadline and for one reload when it runs   *)
(* past it.                                                                 *)
C14_FailedReloadNotFatal ==
    fetch_failed =>
        /\ pc = "steady"
        /\ cadences = {RunEvery("_fast_refresh"), RunEvery("_slow_refresh")}
        /\ every # 0
        /\ refresh_devices_at = reload_time + every
        /\ ev.op = "_slow_refresh" =>
              /\ ev.old_at = ev.since + every
              /\ Count(ev.out, "_refresh_devices") = (IF ev.t > ev.old_at THEN 1 ELSE 0)

(* The fetch failed, and the first slow tick past the advanced deadline    *)
(* asked for the reload again.                                             *)
C14_Witness ==
    /\ fetch_failed
    /\ ev.op = "_slow_refresh"
    /\ ev.t > ev.old_at
    /\ ev.since > StartTime
    /\ Count(ev.out, "_refresh_devices") = 1

(* C15: with one fast tick and one slow tick in flight together, the fast  *)
(* tick is the only one to write _today and the slow tick the only one to  *)
(* write _refresh_devices_at, and however their statements interleave,     *)
(* when both are done _today, _refresh_devices_at and the jobs handed to   *)
(* the runner are those of the two ticks run one after the other, in       *)
(* either order.                                                           *)
Position(fn) == Min({k \in DOMAIN queue : queue[k].fn = fn})

C15_InterleavingIsSerial ==
    LET fast == th["fast1"]
        slow == th["slow1"]
        changed == fast.was # date
        reload == every # 0 /\ now > slow.was
    IN  /\ fast.pc \in {"test", "store"} => today = fast.was
        /\ slow.pc \in {"test", "store"} => refresh_devices_at = slow.was
        /\ (fast.pc = "done" /\ slow.pc = "done") =>
              /\ today = date
              /\ refresh_devices_at = (IF reload THEN now + every ELSE slow.was)
              /\ fast.out = FastSubmissions(bases, changed)
              /\ slow.out = SlowSubmissions(reload)
              /\ Count(queue, "_st.save") = 1
              /\ Count(queue, "async_ping") >= Len(bases)
              /\ Count(queue, "_ml.load") = (IF changed THEN 1 ELSE 0)
              /\ Count(queue, "_refresh_camera_media") = (IF changed THEN 1 ELSE 0)
              /\ Count(queue, "_refresh_bases") = 1
              /\ Count(queue, "_refresh_ambient_sensors") = 1
              /\ Count(queue, "_refresh_devices") = (IF reload THEN 1 ELSE 0)

(* Both ticks found work and overlapped: the fast tick began first, the    *)
(* slow tick began and ended inside it.                                    *)
C15_Witness ==
    /\ th["fast1"].pc = "done"
    /\ th["slow1"].pc = "done"
    /\ th["fast1"].hit
    /\ th["slow1"].hit
    /\ Position("_st.save") < Position("_refresh_bases")
    /\ Position("_refresh_devices") < Position("_ml.load")

(* C16, as claimed: two fast ticks in flight together hand the runner the  *)
(* media-library reload and the camera-media rebuild at most once between  *)
(* them, and two slow ticks in flight together hand it the device reload   *)
(* at most once between them.                                              *)
C16_OnceInTotal ==
    AllDone =>
        LET fast == th["fast1"].out \o th["fast2"].out
            slow == th["slow1"].out \o th["slow2"].out
        IN  /\ Count(fast, "_ml.load") <= 1
            /\ Count(fast, "_refresh_camera_media") <= 1
            /\ Count(slow, "_refresh_devices") <= 1

(* C17: every fast tick, whether or not the date changed, hands the runner *)
(* one store save and, for each base, one ping as a job of its own, before *)
(* its day test and whatever that test finds; and when a ping job raises,  *)
(* the jobs behind it still wait for the runner, the object stands and the *)
(* fast cadence stays registered.                                          *)
C17_SaveAndPings ==
    /\ ev.op = "_fast_refresh" =>
          /\ Count(ev.out, "_st.save") = 1
          /\ Count(ev.out, "async_ping") = Len(bases)
          /\ \A b \in 1..Len(bases) :
                Cardinality({k \in DOMAIN ev.out : ev.out[k] = RunPing(b)}) = 1
          /\ today = ev.d
          /\ Count(ev.out, "_ml.load") = (IF ev.d # ev.prev THEN 1 ELSE 0)
    /\ (ev.op = "job" /\ ev.arg = "async_ping" /\ ev.ret = <<"raised">>) =>
          /\ queue = Tail(ev.out)
          /\ pc = "steady"
          /\ RunEvery("_fast_refresh") \in cadences

(* A fast tick on two bases and a changed date; the ping of the first base *)
(* raised, and the ping of the second and the day's two jobs still wait.   *)
C17_Witness ==
    /\ ev.op = "job"
    /\ ev.arg = "async_ping"
    /\ ev.ret = <<"raised">>
    /\ Len(bases) = 2
    /\ ev.out[1] = RunPing(1)
    /\ queue = <<RunPing(2), Run("_ml.load"), Run("_refresh_camera_media")>>

(* C18: every slow tick, with the reload on or off, hands the runner one   *)
(* _refresh_bases job with initial false and one ambient-sensor refresh;   *)
(* a _refresh_bases job updates the list of modes of every base once and   *)
(* sends the cameras and the doorbells notification for it once each, and  *)
(* pulls the base's active mode only when it is the initial refresh's job; *)
(* no tick hands over a _refresh_bases job with initial true.              *)
C18_SlowTickJobs ==
    /\ ev.op = "_slow_refresh" =>
          /\ Count(ev.out, "_refresh_bases") = 1
          /\ Count(ev.out, "_refresh_ambient_sensors") = 1
    /\ ev.op \in {"_slow_refresh", "_fast_refresh", "__init__"} =>
          \A k \in DOMAIN ev.out : ~ev.out[k].initial
    /\ ev.op = "_initial_refresh" =>
          /\ RunRefreshBases(TRUE) \in Range(ev.out)
          /\ Count(ev.out, "_refresh_ambient_sensors") = 1
    /\ ev.op = "_refresh_bases" =>
          /\ Len(ev.out) = Len(bases) * (IF ev.arg = "True" THEN 4 ELSE 3)
          /\ \A b \in 1..Len(bases) :
                /\ Calls(ev.out, "update_modes", b) = 1
                /\ Calls(ev.out, "notify_cameras", b) = 1
                /\ Calls(ev.out, "notify_doorbells", b) = 1
                /\ Calls(ev.out, "update_mode", b) = (IF ev.arg = "True" THEN 1 ELSE 0)

(* A slow tick's _refresh_bases job ran on a base with the reload off: the *)
(* list of modes was updated, the active mode was not pulled.              *)
C18_Witness ==
    /\ ev.op = "_refresh_bases"
    /\ ev.arg = "False"
    /\ every = 0
    /\ Len(bases) = 1
    /\ Calls(ev.out, "update_modes", 1) = 1
    /\ Calls(ev.out, "update_mode", 1) = 0
    /\ Calls(ev.out, "notify_doorbells", 1) = 1

(* C19: in every state after construction, whatever ticks and reload jobs  *)
(* have run, bases, cameras and doorbells hold the records made at startup *)
(* from the startup inventory, one per device that classification put in   *)
(* the collection, and the store's totals under "ARLO" are the lengths of  *)
(* cameras and doorbells; a reload changes the raw inventory only.         *)
StartupDevices(types, model) ==
    {i \in DOMAIN backend :
        /\ backend[i].state = "provisioned"
        /\ backend[i].deviceType \in types \/ backend[i].modelId \in model}

C19_CollectionsFrozen ==
    pc = "steady" =>
        /\ \A r \in Records : r.src \in DOMAIN backend /\ r.attrs = backend[r.src]
        /\ {r.src : r \in Range(bases)} =
              StartupDevices({"basestation", "arloq", "arloqs"}, {"ABC1000"})
        /\ {r.src : r \in Range(cameras)} = StartupDevices({"camera", "arloq", "arloqs"}, {})
        /\ {r.src : r \in Range(doorbells)} = StartupDevices({"doorbell"}, {})
        /\ Len(bases) = Cardinality(Range(bases))
        /\ Len(cameras) = Cardinality(Range(cameras))
        /\ Len(doorbells) = Cardinality(Range(doorbells))
        /\ store[<<"ARLO", TOTAL_CAMERAS_KEY>>] = Len(cameras)
        /\ store[<<"ARLO", TOTAL_BELLS_KEY>>] = Len(doorbells)

(* A reload job has replaced the raw inventory with an empty one; the base *)
(* and the camera of startup are still there and still counted.            *)
C19_Witness ==
    /\ pc = "steady"
    /\ ev.op = "_refresh_devices"
    /\ ~fetch_failed
    /\ Len(devices) = 0
    /\ Len(backend) > 0
    /\ Len(bases) = 1
    /\ Len(cameras) = 1
    /\ store[<<"ARLO", TOTAL_CAMERAS_KEY>>] = 1

(* C20: with the fast cadence ticking again and again and no stop(), a     *)
(* calendar date that differs from the stored _today leads to a fast tick  *)
(* that hands the media-library reload and the camera-media rebuild to the *)
(* runner and leaves _today equal to the calendar date, unless the         *)
(* calendar returns to the stored date before a tick reads it.             *)
Rolled ==
    /\ ev.op = "_fast_refresh"
    /\ ev.d # ev.prev
    /\ Count(ev.out, "_ml.load") = 1
    /\ Count(ev.out, "_refresh_camera_media") = 1
    /\ today = date

Reverted == ev.op = "none" /\ today = date

C20_RolloverEventually ==
    (pc = "steady" /\ ~stopped /\ today # date) ~> (Rolled \/ Reverted)

(* The date changed twice before a fast tick read it; the tick handed the  *)
(* two jobs over once and stored the date it read.                         *)
C20_Witness ==
    /\ Rolled
    /\ ev.d # ev.prev + 1
    /\ Len(bases) = 2
    /\ Len(queue) = 5

====
